---- MODULE Spec2Model ----
(***************************************************************************)
(* Model of impacket/examples/name_generators.py: the name generators, the *)
(* share placement resolver (PathGenerator) and the Task Scheduler value   *)
(* generator.                                                              *)
(*                                                                         *)
(* Python strings are TLA+ strings; class attributes (the tables) are      *)
(* state variables because Python lets any code rebind or mutate them.     *)
(* Every function is one action that runs its whole body; each random      *)
(* draw and each clock read of the body is an input of the action.         *)
(***************************************************************************)
EXTENDS Integers, Sequences, FiniteSets, TLC

VARIABLES
    \* class attributes of PathGenerator
    PATHS_BY_SHARE, FALLBACK_PATHS,
    \* class attributes of the name generators (vocabulary tables)
    VENDORS, COMPONENTS, SUFFIXES,
    LOG_PREFIXES, TEMP_PREFIXES, DATA_PREFIXES,
    ACTION_WORDS, TARGETS, SHARE_NAMES, DIR_PREFIXES,
    \* the call in progress or last completed
    pc,       \* "idle": between calls; "callee": a function is executing;
              \* "returned": the function returned and the caller holds result
    fn,       \* name of the function called ("None" between calls)
    args,     \* its arguments, a record
    result,   \* its return value once it has returned
    clock,    \* the value datetime.now() returned to the call, if it read the clock
    called_before \* history: the caller has taken the result of an earlier call

tables == <<PATHS_BY_SHARE, FALLBACK_PATHS, VENDORS, COMPONENTS, SUFFIXES,
            LOG_PREFIXES, TEMP_PREFIXES, DATA_PREFIXES, ACTION_WORDS, TARGETS,
            SHARE_NAMES, DIR_PREFIXES>>

vars == <<PATHS_BY_SHARE, FALLBACK_PATHS, VENDORS, COMPONENTS, SUFFIXES,
          LOG_PREFIXES, TEMP_PREFIXES, DATA_PREFIXES, ACTION_WORDS, TARGETS,
          SHARE_NAMES, DIR_PREFIXES, pc, fn, args, result, clock, called_before>>

(***************************************************************************)
(* Bounds of the model.                                                    *)
(***************************************************************************)
\* share identifiers passed by the caller: every string over ShareAlphabet
\* of at most this length, and the spellings in NamedShares
MaxShareLen == 2

\* random.random() is modelled as k / RandResolution, k in 0..RandResolution-1
RandResolution == 20

\* datetime.now() returns one of this many instants (Nows)
ClockReadings == 2

\* each random.randint of generate_start_boundary is drawn from this many
\* equal steps across its range, both ends of the range included
BoundarySteps == 1

\* random.randint(0, 9999) of generate_log: the number of equal steps across
\* the range, both ends included
LogNumberSteps == 100

\* random.randint(1000, 99999) of generate_temp: likewise
TempNumberSteps == 20

\* random.choices('0123456789ABCDEF', k=6) of generate_temp: the number of
\* equal steps across the 16^6 six-digit strings, "000000" and "FFFFFF" included
HexSteps == 5

(***************************************************************************)
(* Python built-ins used by the source.                                    *)
(***************************************************************************)
LowerLetters == "abcdefghijklmnopqrstuvwxyz"

UpperLetters == "ABCDEFGHIJKLMNOPQRSTUVWXYZ"

Digits == "0123456789"

CharAt(s, i) == SubSeq(s, i, i)

\* str.upper() of one character: a lower-case ASCII letter maps to its
\* upper-case letter, every other character of the model's alphabet to itself
UpperChar(c) ==
    IF \E i \in 1..26 : CharAt(LowerLetters, i) = c
    THEN CharAt(UpperLetters, CHOOSE i \in 1..26 : CharAt(LowerLetters, i) = c)
    ELSE c

RECURSIVE upper(_)
\* str.upper()
upper(s) == IF s = "" THEN "" ELSE UpperChar(Head(s)) \o upper(Tail(s))

\* str.endswith(suffix)
endswith(s, suffix) ==
    /\ Len(s) >= Len(suffix)
    /\ SubSeq(s, Len(s) - Len(suffix) + 1, Len(s)) = suffix

\* dict.get(key, default)
DictGet(d, key, default) == IF key \in DOMAIN d THEN d[key] ELSE default

RECURSIVE SumTo(_, _)
\* weights[1] + ... + weights[i]  (itertools.accumulate)
SumTo(weights, i) == IF i = 0 THEN 0 ELSE SumTo(weights, i - 1) + weights[i]

\* random.choices(population, weights=weights)[0] where random.random()
\* returned k / RandResolution: bisect(cum_weights, random() * total, 0, n - 1)
\* is the first index whose cumulative weight exceeds the draw, the last
\* index when there is none among the first n - 1
choices(population, weights, k) ==
    LET n     == Len(population)
        total == SumTo(weights, n)
        hits  == {i \in 1..(n - 1) : SumTo(weights, i) * RandResolution > k * total}
    IN  IF hits = {} THEN population[n]
        ELSE population[CHOOSE i \in hits : \A j \in hits : i <= j]

\* the draws random.random() can return
RandomDraws == 0..(RandResolution - 1)

\* the draws of random.randint(a, b) the model takes when the range is too
\* large to enumerate: a, b and the values at n equal steps between them; it
\* is all of a..b once n >= b - a
randint_steps(a, b, n) == {a + ((i * (b - a)) \div n) : i \in 0..n}

(***************************************************************************)
(* PathGenerator                                                           *)
(***************************************************************************)
\* PATHS_BY_SHARE with the C$ fallback path listed among the C$ entries
InitPATHS_BY_SHARE_with_fallback ==
    ("C$" :> << <<"Users\\Public\\Downloads\\", 95>>,
                <<"ProgramData\\", 90>>,
                <<"Windows\\Logs\\", 70>>,
                <<"Windows\\Debug\\", 65>>,
                <<"Temp\\", 50>>,
                <<"Windows\\Temp\\", 40>> >>)
    @@ ("ADMIN$" :> << <<"Logs\\", 80>>,
                       <<"Debug\\", 75>> >>)

\* PATHS_BY_SHARE as the class body defines it: (path, weight) in declared order
InitPATHS_BY_SHARE ==
    ("C$" :> << <<"Users\\Public\\Downloads\\", 95>>,
                <<"ProgramData\\", 90>>,
                <<"Windows\\Logs\\", 70>>,
                <<"Windows\\Debug\\", 65>>,
                <<"Temp\\", 50>> >>)
    @@ ("ADMIN$" :> << <<"Logs\\", 80>>,
                       <<"Debug\\", 75>> >>)

\* FALLBACK_PATHS with a leading separator on the C$ path
InitFALLBACK_PATHS_leading ==
    ("C$" :> "\\Windows\\Temp\\") @@ ("ADMIN$" :> "Temp\\")

\* FALLBACK_PATHS as the class body defines it
InitFALLBACK_PATHS ==
    ("C$" :> "Windows\\Temp\\") @@ ("ADMIN$" :> "Temp\\")

\* the default of FALLBACK_PATHS.get(share_upper, 'Temp\\')
DefaultFallback == "Temp\\"

\* normalization that forgets to append the '$' marker
normalize_share_no_marker(share_name) == upper(share_name)

\* "Normalize share name": upper-case, then append '$' unless it ends with it
normalize_share(share_name) ==
    LET share_upper == upper(share_name)
    IN  IF ~endswith(share_upper, "$") THEN share_upper \o "$" ELSE share_upper

\* zip(*paths_with_weights): the paths, the weights
PathsOf(paths_with_weights) ==
    [i \in 1..Len(paths_with_weights) |-> paths_with_weights[i][1]]

WeightsOf(paths_with_weights) ==
    [i \in 1..Len(paths_with_weights) |-> paths_with_weights[i][2]]

\* get_path_for_share with another default for unknown shares
get_path_for_share_wrong_default(share_name, weighted, k) ==
    LET share_upper == normalize_share(share_name)
    IN  IF share_upper \notin DOMAIN PATHS_BY_SHARE
        THEN DictGet(FALLBACK_PATHS, share_upper, "Windows\\Temp\\")
        ELSE LET paths_with_weights == PATHS_BY_SHARE[share_upper]
             IN  IF ~weighted
                 THEN paths_with_weights[1][1]
                 ELSE choices(PathsOf(paths_with_weights),
                              WeightsOf(paths_with_weights), k)

\* get_path_for_share returning the last entry in priority mode
get_path_for_share_last_entry(share_name, weighted, k) ==
    LET share_upper == normalize_share(share_name)
    IN  IF share_upper \notin DOMAIN PATHS_BY_SHARE
        THEN DictGet(FALLBACK_PATHS, share_upper, DefaultFallback)
        ELSE LET paths_with_weights == PATHS_BY_SHARE[share_upper]
             IN  IF ~weighted
                 THEN paths_with_weights[Len(paths_with_weights)][1]
                 ELSE choices(PathsOf(paths_with_weights),
                              WeightsOf(paths_with_weights), k)

\* PathGenerator.get_path_for_share(share_name, weighted), k the random draw
get_path_for_share(share_name, weighted, k) ==
    LET share_upper == normalize_share(share_name)
    IN  IF share_upper \notin DOMAIN PATHS_BY_SHARE
        THEN DictGet(FALLBACK_PATHS, share_upper, DefaultFallback)
        ELSE LET paths_with_weights == PATHS_BY_SHARE[share_upper]
             IN  IF ~weighted
                 THEN paths_with_weights[1][1]
                 ELSE choices(PathsOf(paths_with_weights),
                              WeightsOf(paths_with_weights), k)

\* PathGenerator.get_fallback_path(share_name)
get_fallback_path(share_name) ==
    DictGet(FALLBACK_PATHS, normalize_share(share_name), DefaultFallback)

(***************************************************************************)
(* str, str.format and strftime                                            *)
(***************************************************************************)
RECURSIVE IntToStr(_)
\* str(n) for an integer n >= 0
IntToStr(n) ==
    IF n < 10 THEN CharAt(Digits, n + 1)
    ELSE IntToStr(n \div 10) \o CharAt(Digits, (n % 10) + 1)

RECURSIVE ZeroPad(_, _)
\* a decimal string left-padded with zeros to the given width (format "0Nd")
ZeroPad(s, width) == IF Len(s) >= width THEN s ELSE ZeroPad("0" \o s, width)

\* one replacement field or literal piece of a pattern, formatted against
\* the keyword arguments kw
FormatField(piece, kw) ==
    CASE piece = "{prefix}"      -> kw.prefix
      [] piece = "{date}"        -> kw.date
      [] piece = "{timestamp}"   -> kw.timestamp
      [] piece = "{number:04d}"  -> ZeroPad(IntToStr(kw.number), 4)
      [] piece = "{number}"      -> IntToStr(kw.number)
      [] piece = "{hex}"         -> kw.hex
      [] piece = "{vendor}"      -> kw.vendor
      [] piece = "{component}"   -> kw.component
      [] piece = "{suffix}"      -> kw.suffix
      [] piece = "{action}"      -> kw.action
      [] piece = "{target}"      -> kw.target
      [] OTHER                   -> piece

RECURSIVE format(_, _)
\* pattern.format(**kw); a pattern is the sequence of its literal pieces and
\* replacement fields
format(pattern, kw) ==
    IF pattern = <<>> THEN ""
    ELSE FormatField(Head(pattern), kw) \o format(Tail(pattern), kw)

\* strftime('%Y%m%d')
strftime_Ymd(t) ==
    ZeroPad(IntToStr(t.year), 4) \o ZeroPad(IntToStr(t.month), 2)
        \o ZeroPad(IntToStr(t.day), 2)

\* strftime('%H%M%S')
strftime_HMS(t) ==
    ZeroPad(IntToStr(t.hour), 2) \o ZeroPad(IntToStr(t.minute), 2)
        \o ZeroPad(IntToStr(t.second), 2)

\* strftime('%Y-%m-%dT%H:%M:%S')
strftime_iso(t) ==
    ZeroPad(IntToStr(t.year), 4) \o "-" \o ZeroPad(IntToStr(t.month), 2) \o "-"
        \o ZeroPad(IntToStr(t.day), 2) \o "T" \o ZeroPad(IntToStr(t.hour), 2)
        \o ":" \o ZeroPad(IntToStr(t.minute), 2) \o ":"
        \o ZeroPad(IntToStr(t.second), 2)

(***************************************************************************)
(* datetime and timedelta                                                  *)
(***************************************************************************)
IsLeap(y) == (y % 4 = 0) /\ ((y % 100 # 0) \/ (y % 400 = 0))

DAYS_BEFORE_MONTH == <<0, 31, 59, 90, 120, 151, 181, 212, 243, 273, 304, 334>>

\* number of days before January 1st of year y
days_before_year(y) ==
    ((y - 1) * 365) + ((y - 1) \div 4) - ((y - 1) \div 100) + ((y - 1) \div 400)

\* number of days in year y preceding the first day of month m
days_before_month(y, m) ==
    DAYS_BEFORE_MONTH[m] + (IF m > 2 /\ IsLeap(y) THEN 1 ELSE 0)

\* date.toordinal()
ymd2ord(y, m, d) == days_before_year(y) + days_before_month(y, m) + d

\* date.fromordinal(n)
ord2ymd(ordinal) ==
    LET n0   == ordinal - 1
        n400 == n0 \div 146097
        r400 == n0 % 146097
        n100 == r400 \div 36524
        r100 == r400 % 36524
        n4   == r100 \div 1461
        r4   == r100 % 1461
        n1   == r4 \div 365
        n    == r4 % 365
        year == (n400 * 400) + 1 + (n100 * 100) + (n4 * 4) + n1
    IN  IF n1 = 4 \/ n100 = 4
        THEN [year |-> year - 1, month |-> 12, day |-> 31]
        ELSE LET leapyear == (n1 = 3) /\ (n4 # 24 \/ n100 = 3)
                 leap(mm) == IF mm > 2 /\ leapyear THEN 1 ELSE 0
                 month0   == (n + 50) \div 32
                 prec0    == DAYS_BEFORE_MONTH[month0] + leap(month0)
                 month    == IF prec0 > n THEN month0 - 1 ELSE month0
                 prec     == DAYS_BEFORE_MONTH[month] + leap(month)
             IN  [year |-> year, month |-> month, day |-> (n - prec) + 1]

\* now + timedelta(hours=h, minutes=m, seconds=s)
datetime_add(now, h, m, s) ==
    LET secs == (now.hour * 3600) + (now.minute * 60) + now.second
                    + (h * 3600) + (m * 60) + s
        days == ymd2ord(now.year, now.month, now.day) + (secs \div 86400)
        sec  == secs % 86400
        date == ord2ymd(days)
    IN  [year |-> date.year, month |-> date.month, day |-> date.day,
         hour |-> sec \div 3600, minute |-> (sec % 3600) \div 60,
         second |-> sec % 60]

\* A datetime is carried to the second: the source formats the clock with
\* %Y%m%d, %H%M%S and %Y-%m-%dT%H:%M:%S and never reads its microsecond.
\* The first instant the clock returns in the model: half an hour into the day
\* after a leap day
ClockStart ==
    [year |-> 2024, month |-> 3, day |-> 1, hour |-> 0, minute |-> 30,
     second |-> 15]

\* the values datetime.now() returns in the model: ClockReadings instants,
\* 670 days and 23 hours apart, so that the second one is half an hour before
\* the end of a year
Nows ==
    {datetime_add(ClockStart, i * ((670 * 24) + 23), 0, 0) :
        i \in 0..(ClockReadings - 1)}

(***************************************************************************)
(* ServiceNameGenerator                                                    *)
(***************************************************************************)
InitVENDORS ==
    <<"Microsoft", "Windows", "Intel", "AMD", "NVIDIA", "Adobe", "Realtek">>

InitCOMPONENTS ==
    <<"Audio", "Display", "Network", "Security", "Update", "Telemetry",
      "Diagnostic", "Performance", "Device", "Management">>

InitSUFFIXES == <<"Service", "Helper", "Manager", "Monitor", "Agent">>

ServicePatterns ==
    << <<"{vendor}", "{component}", "{suffix}">>,
       <<"{vendor}", "{suffix}">>,
       <<"{component}", "{suffix}">>,
       <<"svc", "{component}">> >>

\* ServiceNameGenerator.generate(); p, v, c, s: the random.choice indexes
generate_service_name(p, v, c, s) ==
    format(ServicePatterns[p],
           [vendor |-> VENDORS[v], component |-> COMPONENTS[c],
            suffix |-> SUFFIXES[s]])

(***************************************************************************)
(* FileNameGenerator                                                       *)
(***************************************************************************)
InitLOG_PREFIXES ==
    <<"log", "trace", "debug", "error", "event", "setup", "install">>

InitTEMP_PREFIXES == <<"tmp", "temp", "cache", "backup", "old", "bak">>

InitDATA_PREFIXES == <<"data", "update", "config", "settings", "info">>

LogPatterns ==
    << <<"{prefix}", "_", "{date}">>,
       <<"{prefix}", "{number:04d}">>,
       <<"{prefix}", "_", "{timestamp}">>,
       <<"{prefix}">> >>

\* random.randint(0, 9999)
LogNumbers == randint_steps(0, 9999, LogNumberSteps)

\* FileNameGenerator.generate_log(); i, p: the random.choice indexes, number
\* the random.randint draw, now1 and now2 the two clock reads
generate_log(i, p, number, now1, now2) ==
    format(LogPatterns[p],
           [prefix |-> LOG_PREFIXES[i], date |-> strftime_Ymd(now1),
            number |-> number, timestamp |-> strftime_HMS(now2)])
        \o ".log"

TempPatterns ==
    << <<"{prefix}", "{hex}">>,
       <<"{prefix}", "_", "{number}">>,
       <<"~", "{prefix}", "{number}">>,
       <<"{prefix}">> >>

HexDigits == "0123456789ABCDEF"

\* random.choices('0123456789ABCDEF', k=6), as six indexes into HexDigits:
\* the six digits of the values at HexSteps equal steps across 0..16^6 - 1
HexDraws ==
    {[j \in 1..6 |-> ((v \div (16 ^ (6 - j))) % 16) + 1] :
        v \in randint_steps(0, (16 ^ 6) - 1, HexSteps)}

\* random.randint(1000, 99999)
TempNumbers == randint_steps(1000, 99999, TempNumberSteps)

\* ''.join(random.choices('0123456789ABCDEF', k=6))
JoinHex(h) ==
    CharAt(HexDigits, h[1]) \o CharAt(HexDigits, h[2]) \o CharAt(HexDigits, h[3])
        \o CharAt(HexDigits, h[4]) \o CharAt(HexDigits, h[5])
        \o CharAt(HexDigits, h[6])

\* generate_temp falling back to '.tmp' when the extension is empty
generate_temp_default_on_empty(extension, i, p, h, number) ==
    LET name == format(TempPatterns[p],
                       [prefix |-> TEMP_PREFIXES[i], hex |-> JoinHex(h),
                        number |-> number])
    IN  IF extension # "" THEN name \o extension ELSE name \o ".tmp"

\* FileNameGenerator.generate_temp(extension)
generate_temp(extension, i, p, h, number) ==
    LET name == format(TempPatterns[p],
                       [prefix |-> TEMP_PREFIXES[i], hex |-> JoinHex(h),
                        number |-> number])
    IN  IF extension # "" THEN name \o extension ELSE name

\* the default of the extension parameter
DefaultExtension == ".tmp"

BatchPrefixes == <<"setup", "install", "update", "cleanup", "init", "start">>

BatchPatterns ==
    << <<"{prefix}">>,
       <<"{prefix}", "_", "{number}">>,
       <<"{prefix}", "_tmp">> >>

\* FileNameGenerator.generate_batch()
generate_batch(i, p, number) ==
    format(BatchPatterns[p], [prefix |-> BatchPrefixes[i], number |-> number])
        \o ".bat"

ExePrefixes ==
    <<"svc", "setup", "update", "install", "helper", "agent", "manager", "host">>

ExeSuffixes == <<"host", "svc", "mngr", "agent", "helper", "exe">>

ExePatterns == << <<"{prefix}", "{suffix}">>, <<"{prefix}">> >>

\* generate_executable with a dot between prefix and suffix
generate_executable_dotted(p, i, j) ==
    format(<< <<"{prefix}", ".", "{suffix}">>, <<"{prefix}">> >>[p],
           [prefix |-> ExePrefixes[i], suffix |-> ExeSuffixes[j]])
        \o ".exe"

\* FileNameGenerator.generate_executable()
generate_executable(p, i, j) ==
    format(ExePatterns[p], [prefix |-> ExePrefixes[i], suffix |-> ExeSuffixes[j]])
        \o ".exe"

(***************************************************************************)
(* TaskNameGenerator                                                       *)
(***************************************************************************)
InitACTION_WORDS ==
    <<"Update", "Sync", "Check", "Scan", "Verify", "Backup", "Clean", "Monitor">>

InitTARGETS ==
    <<"System", "Security", "Network", "Cache", "Registry", "Config", "Logs",
      "Data">>

TaskPatterns ==
    << <<"{action}", "{target}">>,
       <<"{target}", "{action}">>,
       <<"Scheduled", "{action}">>,
       <<"{action}", "Task">> >>

\* TaskNameGenerator.generate()
generate_task_name(p, a, t) ==
    format(TaskPatterns[p], [action |-> ACTION_WORDS[a], target |-> TARGETS[t]])

(***************************************************************************)
(* ShareNameGenerator                                                      *)
(***************************************************************************)
InitSHARE_NAMES ==
    <<"SHARE", "DATA", "FILES", "DOCS", "PUBLIC", "TRANSFER", "COMMON">>

InitDIR_PREFIXES == <<"tmp", "temp", "cache", "data", "backup", "old">>

\* ShareNameGenerator.generate_share(); add_number: random.choice([True, False])
generate_share(i, add_number, number) ==
    IF add_number THEN SHARE_NAMES[i] \o IntToStr(number) ELSE SHARE_NAMES[i]

\* random.randint(100, 999)
DirSuffixes == 100..999

\* ShareNameGenerator.generate_directory()
generate_directory(i, suffix) == "__" \o DIR_PREFIXES[i] \o IntToStr(suffix)

(***************************************************************************)
(* TaskSchedulerGenerator                                                  *)
(***************************************************************************)
\* random.randint(-24, 0)
HourOffsets == randint_steps(-24, 0, BoundarySteps)

\* random.randint(0, 59), for the minutes
MinuteOffsets == randint_steps(0, 59, BoundarySteps)

\* random.randint(0, 59), for the seconds
SecondOffsets == randint_steps(0, 59, BoundarySteps)

\* random.randint(1000000, 9999999)
MicrosecondDraws == randint_steps(1000000, 9999999, BoundarySteps)

\* TaskSchedulerGenerator.generate_start_boundary()
generate_start_boundary(now, hours_offset, minutes_offset, seconds_offset, microseconds) ==
    LET target_time == datetime_add(now, hours_offset, minutes_offset,
                                    seconds_offset)
    IN  strftime_iso(target_time) \o "." \o IntToStr(microseconds)

DaysIntervalWeights == <<50, 10, 5, 5, 5, 10, 15>>

\* generate_days_interval over range(0, 7)
generate_days_interval_range0(k) ==
    choices([i \in 1..7 |-> i - 1], DaysIntervalWeights, k)

\* TaskSchedulerGenerator.generate_days_interval()
generate_days_interval(k) ==
    choices([i \in 1..7 |-> i], DaysIntervalWeights, k)

ExecutionTimeLimitFormats ==
    <<"PT1H", "PT2H", "PT4H", "PT12H", "P1D", "P2D", "P3D", "P5D", "P7D">>

\* TaskSchedulerGenerator.generate_execution_time_limit()
generate_execution_time_limit(i) == ExecutionTimeLimitFormats[i]

Priorities == <<4, 5, 6, 7, 8>>

PriorityWeights == <<25, 30, 25, 15, 5>>

\* TaskSchedulerGenerator.generate_priority()
generate_priority(k) == choices(Priorities, PriorityWeights, k)

\* TaskSchedulerGenerator.generate_hidden()
generate_hidden(k) == choices(<<TRUE, FALSE>>, <<70, 30>>, k)

\* TaskSchedulerGenerator.generate_idle_settings()
generate_idle_settings(k1, k2) ==
    [StopOnIdleEnd |-> choices(<<TRUE, FALSE>>, <<20, 80>>, k1),
     RestartOnIdle |-> choices(<<TRUE, FALSE>>, <<15, 85>>, k2)]

\* TaskSchedulerGenerator.generate_all(): the record of the four values its
\* calls of the generators above returned
generate_all(StartBoundary, DaysInterval, ExecutionTimeLimit, Priority) ==
    [StartBoundary      |-> StartBoundary,
     DaysInterval       |-> DaysInterval,
     ExecutionTimeLimit |-> ExecutionTimeLimit,
     Priority           |-> Priority]

(***************************************************************************)
(* The caller.                                                             *)
(***************************************************************************)
ShareAlphabet == {"c", "C", "z", "Z", "$"}

RECURSIVE StringsUpTo(_)
StringsUpTo(n) ==
    IF n = 0 THEN {""}
    ELSE LET S == StringsUpTo(n - 1)
         IN  S \cup {s \o c : s \in S, c \in ShareAlphabet}

NamedShares == {"C$", "c$", "C", "c", "ADMIN$", "admin$", "Admin", "ADMIN",
                "Admin$", "Z$", "IPC$", "D$", "C$$", "ADMINS"}

\* the share identifiers the caller passes
ShareNames == StringsUpTo(MaxShareLen) \cup NamedShares

\* the extensions the caller passes to generate_temp
Extensions == {"", ".tmp", ".dat", ".log", "tmp", "."}

\* the functions that take no argument
NoArgFunctions ==
    {"ServiceNameGenerator.generate",
     "FileNameGenerator.generate_log",
     "FileNameGenerator.generate_temp",
     "FileNameGenerator.generate_batch",
     "FileNameGenerator.generate_executable",
     "TaskNameGenerator.generate",
     "ShareNameGenerator.generate_share",
     "ShareNameGenerator.generate_directory",
     "TaskSchedulerGenerator.generate_start_boundary",
     "TaskSchedulerGenerator.generate_days_interval",
     "TaskSchedulerGenerator.generate_execution_time_limit",
     "TaskSchedulerGenerator.generate_priority",
     "TaskSchedulerGenerator.generate_hidden",
     "TaskSchedulerGenerator.generate_idle_settings",
     "TaskSchedulerGenerator.generate_all"}

\* the calls the caller can make: function name and arguments; a parameter
\* left out of args takes its default
Calls ==
    {[fn |-> "PathGenerator.get_path_for_share",
      args |-> [share_name |-> s, weighted |-> w]] :
        s \in ShareNames, w \in BOOLEAN}
    \cup {[fn |-> "PathGenerator.get_path_for_share",
           args |-> [share_name |-> s]] : s \in ShareNames}
    \cup {[fn |-> "PathGenerator.get_fallback_path",
           args |-> [share_name |-> s]] : s \in ShareNames}
    \cup {[fn |-> "FileNameGenerator.generate_temp",
           args |-> [extension |-> e]] : e \in Extensions}
    \cup {[fn |-> f, args |-> <<>>] : f \in NoArgFunctions}

\* the caller invokes one function of the module
Call ==
    /\ pc = "idle"
    /\ \E c \in Calls :
        /\ fn' = c.fn
        /\ args' = c.args
    /\ pc' = "callee"
    /\ UNCHANGED <<tables, result, clock, called_before>>

\* the function f is executing
Running(f) == pc = "callee" /\ fn = f

\* the function f has returned and its value is in result
Returned(f) == pc = "returned" /\ fn = f

\* a return statement: the value goes to the caller
Return(value) ==
    /\ result' = value
    /\ pc' = "returned"
    /\ UNCHANGED <<fn, args, called_before>>

\* the caller takes the returned value: it is the caller's own from here on
\* and the engine keeps no reference to it
Take ==
    /\ pc = "returned"
    /\ pc' = "idle"
    /\ fn' = "None"
    /\ args' = <<>>
    /\ result' = "None"
    /\ clock' = "None"
    /\ called_before' = TRUE
    /\ UNCHANGED tables

\* the value of a parameter: the argument passed, or the default
Param(name, default) == IF name \in DOMAIN args THEN args[name] ELSE default

(***************************************************************************)
(* One action per function.                                                *)
(***************************************************************************)
ServiceNameGenerator_generate ==
    /\ Running("ServiceNameGenerator.generate")
    /\ \E p \in 1..Len(ServicePatterns), v \in 1..Len(VENDORS),
          c \in 1..Len(COMPONENTS), s \in 1..Len(SUFFIXES) :
        Return(generate_service_name(p, v, c, s))
    /\ UNCHANGED <<tables, clock>>

FileNameGenerator_generate_log ==
    /\ Running("FileNameGenerator.generate_log")
    /\ \E i \in 1..Len(LOG_PREFIXES), p \in 1..Len(LogPatterns),
          number \in LogNumbers, now1 \in Nows, now2 \in Nows :
        /\ Return(generate_log(i, p, number, now1, now2))
        /\ clock' = now2
    /\ UNCHANGED tables

FileNameGenerator_generate_temp ==
    /\ Running("FileNameGenerator.generate_temp")
    /\ \E i \in 1..Len(TEMP_PREFIXES), p \in 1..Len(TempPatterns),
          h \in HexDraws, number \in TempNumbers :
        Return(generate_temp(Param("extension", DefaultExtension), i, p, h, number))
    /\ UNCHANGED <<tables, clock>>

FileNameGenerator_generate_batch ==
    /\ Running("FileNameGenerator.generate_batch")
    /\ \E i \in 1..Len(BatchPrefixes), p \in 1..Len(BatchPatterns),
          number \in 1..99 :
        Return(generate_batch(i, p, number))
    /\ UNCHANGED <<tables, clock>>

FileNameGenerator_generate_executable ==
    /\ Running("FileNameGenerator.generate_executable")
    /\ \E p \in 1..Len(ExePatterns), i \in 1..Len(ExePrefixes),
          j \in 1..Len(ExeSuffixes) :
        Return(generate_executable(p, i, j))
    /\ UNCHANGED <<tables, clock>>

TaskNameGenerator_generate ==
    /\ Running("TaskNameGenerator.generate")
    /\ \E p \in 1..Len(TaskPatterns), a \in 1..Len(ACTION_WORDS),
          t \in 1..Len(TARGETS) :
        Return(generate_task_name(p, a, t))
    /\ UNCHANGED <<tables, clock>>

ShareNameGenerator_generate_share ==
    /\ Running("ShareNameGenerator.generate_share")
    /\ \E i \in 1..Len(SHARE_NAMES), add_number \in BOOLEAN, number \in 1..9 :
        Return(generate_share(i, add_number, number))
    /\ UNCHANGED <<tables, clock>>

ShareNameGenerator_generate_directory ==
    /\ Running("ShareNameGenerator.generate_directory")
    /\ \E i \in 1..Len(DIR_PREFIXES), suffix \in DirSuffixes :
        Return(generate_directory(i, suffix))
    /\ UNCHANGED <<tables, clock>>

PathGenerator_get_path_for_share ==
    /\ Running("PathGenerator.get_path_for_share")
    /\ \E k \in RandomDraws :
        Return(get_path_for_share(args.share_name, Param("weighted", TRUE), k))
    /\ UNCHANGED <<tables, clock>>

\* get_fallback_path taking the entry out of FALLBACK_PATHS (dict.pop)
PathGenerator_get_fallback_path_pop ==
    /\ Running("PathGenerator.get_fallback_path")
    /\ Return(get_fallback_path(args.share_name))
    /\ FALLBACK_PATHS' =
          [key \in DOMAIN FALLBACK_PATHS \ {normalize_share(args.share_name)} |->
              FALLBACK_PATHS[key]]
    /\ UNCHANGED <<PATHS_BY_SHARE, VENDORS, COMPONENTS, SUFFIXES, LOG_PREFIXES,
                   TEMP_PREFIXES, DATA_PREFIXES, ACTION_WORDS, TARGETS,
                   SHARE_NAMES, DIR_PREFIXES, clock>>

PathGenerator_get_fallback_path ==
    /\ Running("PathGenerator.get_fallback_path")
    /\ Return(get_fallback_path(args.share_name))
    /\ UNCHANGED <<tables, clock>>

TaskSchedulerGenerator_generate_start_boundary ==
    /\ Running("TaskSchedulerGenerator.generate_start_boundary")
    /\ \E now \in Nows, h \in HourOffsets, m \in MinuteOffsets,
          s \in SecondOffsets, us \in MicrosecondDraws :
        /\ Return(generate_start_boundary(now, h, m, s, us))
        /\ clock' = now
    /\ UNCHANGED tables

TaskSchedulerGenerator_generate_days_interval ==
    /\ Running("TaskSchedulerGenerator.generate_days_interval")
    /\ \E k \in RandomDraws : Return(generate_days_interval(k))
    /\ UNCHANGED <<tables, clock>>

TaskSchedulerGenerator_generate_execution_time_limit ==
    /\ Running("TaskSchedulerGenerator.generate_execution_time_limit")
    /\ \E i \in 1..Len(ExecutionTimeLimitFormats) :
        Return(generate_execution_time_limit(i))
    /\ UNCHANGED <<tables, clock>>

TaskSchedulerGenerator_generate_priority ==
    /\ Running("TaskSchedulerGenerator.generate_priority")
    /\ \E k \in RandomDraws : Return(generate_priority(k))
    /\ UNCHANGED <<tables, clock>>

TaskSchedulerGenerator_generate_hidden ==
    /\ Running("TaskSchedulerGenerator.generate_hidden")
    /\ \E k \in RandomDraws : Return(generate_hidden(k))
    /\ UNCHANGED <<tables, clock>>

TaskSchedulerGenerator_generate_idle_settings ==
    /\ Running("TaskSchedulerGenerator.generate_idle_settings")
    /\ \E k1 \in RandomDraws, k2 \in RandomDraws :
        Return(generate_idle_settings(k1, k2))
    /\ UNCHANGED <<tables, clock>>

TaskSchedulerGenerator_generate_all ==
    /\ Running("TaskSchedulerGenerator.generate_all")
    /\ \E now \in Nows, h \in HourOffsets, m \in MinuteOffsets,
          s \in SecondOffsets, us \in MicrosecondDraws :
        LET StartBoundary == generate_start_boundary(now, h, m, s, us)
        IN  /\ \E kd \in RandomDraws, ie \in 1..Len(ExecutionTimeLimitFormats),
                  kp \in RandomDraws :
                Return(generate_all(StartBoundary,
                                    generate_days_interval(kd),
                                    generate_execution_time_limit(ie),
                                    generate_priority(kp)))
            /\ clock' = now
    /\ UNCHANGED tables

(***************************************************************************)
(* The specification.                                                      *)
(***************************************************************************)
Init ==
    /\ PATHS_BY_SHARE = InitPATHS_BY_SHARE
    /\ FALLBACK_PATHS = InitFALLBACK_PATHS
    /\ VENDORS = InitVENDORS
    /\ COMPONENTS = InitCOMPONENTS
    /\ SUFFIXES = InitSUFFIXES
    /\ LOG_PREFIXES = InitLOG_PREFIXES
    /\ TEMP_PREFIXES = InitTEMP_PREFIXES
    /\ DATA_PREFIXES = InitDATA_PREFIXES
    /\ ACTION_WORDS = InitACTION_WORDS
    /\ TARGETS = InitTARGETS
    /\ SHARE_NAMES = InitSHARE_NAMES
    /\ DIR_PREFIXES = InitDIR_PREFIXES
    /\ pc = "idle"
    /\ fn = "None"
    /\ args = <<>>
    /\ result = "None"
    /\ clock = "None"
    /\ called_before = FALSE

Next ==
    \/ Call
    \/ Take
    \/ ServiceNameGenerator_generate
    \/ FileNameGenerator_generate_log
    \/ FileNameGenerator_generate_temp
    \/ FileNameGenerator_generate_batch
    \/ FileNameGenerator_generate_executable
    \/ TaskNameGenerator_generate
    \/ ShareNameGenerator_generate_share
    \/ ShareNameGenerator_generate_directory
    \/ PathGenerator_get_path_for_share
    \/ PathGenerator_get_fallback_path
    \/ TaskSchedulerGenerator_generate_start_boundary
    \/ TaskSchedulerGenerator_generate_days_interval
    \/ TaskSchedulerGenerator_generate_execution_time_limit
    \/ TaskSchedulerGenerator_generate_priority
    \/ TaskSchedulerGenerator_generate_hidden
    \/ TaskSchedulerGenerator_generate_idle_settings
    \/ TaskSchedulerGenerator_generate_all

Spec == Init /\ [][Next]_vars

(***************************************************************************)
(* Properties.                                                             *)
(***************************************************************************)
\* s begins with prefix
startswith(s, prefix) ==
    /\ Len(s) >= Len(prefix)
    /\ SubSeq(s, 1, Len(prefix)) = prefix

\* number of (possibly overlapping) occurrences of sub in s
Occurrences(s, sub) ==
    Cardinality({i \in 1..Len(s) : /\ i + Len(sub) - 1 <= Len(s)
                                   /\ SubSeq(s, i, i + Len(sub) - 1) = sub})

GetPath == "PathGenerator.get_path_for_share"

GetFallback == "PathGenerator.get_fallback_path"

\* the key the specification prescribes for a share identifier
SpecKey(s) == LET u == upper(s) IN IF endswith(u, "$") THEN u ELSE u \o "$"

\* the paths of the Placement Entries registered for a key
PrimaryPaths(key) ==
    {PATHS_BY_SHARE[key][i][1] : i \in 1..Len(PATHS_BY_SHARE[key])}

\* every result get_path_for_share can return for a share and a mode
PossiblePaths(s, w) == {get_path_for_share(s, w, k) : k \in RandomDraws}

\* the weighted flag of the call in progress
Weighted == Param("weighted", TRUE)

CSpellings == {"c$", "C$", "C", "c"}

AdminSpellings == {"ADMIN$", "admin$", "Admin", "ADMIN", "Admin$"}

\* C1: share normalization is case- and marker-insensitive: a lookup of 'c$',
\* 'C$', 'C' or 'c' has the set of possible results of 'C$' in its mode (all
\* C$ entries when weighted) and the fallback of 'C$', likewise for the
\* spellings of ADMIN$; every returned path and fallback is the one of the
\* key upper(s), plus '$' when missing
C1_ShareNormalization ==
    /\ Returned(GetPath) =>
          LET s   == args.share_name
              key == SpecKey(s)
          IN  /\ s \in CSpellings =>
                    /\ PossiblePaths(s, Weighted) = PossiblePaths("C$", Weighted)
                    /\ PossiblePaths(s, Weighted) \subseteq PrimaryPaths("C$")
                    /\ Weighted => PossiblePaths(s, TRUE) = PrimaryPaths("C$")
              /\ s \in AdminSpellings =>
                    /\ PossiblePaths(s, Weighted) = PossiblePaths("ADMIN$", Weighted)
                    /\ PossiblePaths(s, Weighted) \subseteq PrimaryPaths("ADMIN$")
              /\ IF key \in DOMAIN PATHS_BY_SHARE
                 THEN result \in PrimaryPaths(key)
                 ELSE result = DictGet(FALLBACK_PATHS, key, DefaultFallback)
    /\ Returned(GetFallback) =>
          LET s == args.share_name
          IN  /\ s \in CSpellings => result = get_fallback_path("C$")
              /\ s \in AdminSpellings => result = get_fallback_path("ADMIN$")
              /\ result = DictGet(FALLBACK_PATHS, SpecKey(s), DefaultFallback)

\* a weighted lookup of 'c' (lower case, no marker) returned a C$ entry
C1_Witness ==
    /\ Returned(GetPath)
    /\ args.share_name = "c"
    /\ Weighted
    /\ result = "ProgramData\\"

\* C2: for a share identifier whose normalized form has no candidate set,
\* get_path_for_share returns the global default 'Temp\' in both modes; no
\* such identifier has a share-specific fallback
C2_UnknownShareDefault ==
    /\ \A key \in DOMAIN FALLBACK_PATHS : key \in DOMAIN PATHS_BY_SHARE
    /\ (Returned(GetPath) /\ SpecKey(args.share_name) \notin DOMAIN PATHS_BY_SHARE)
          => /\ result = "Temp\\"
             /\ SpecKey(args.share_name) \notin DOMAIN FALLBACK_PATHS

\* a weighted lookup of the unknown share 'Z$' returned the global default
C2_Witness ==
    /\ Returned(GetPath)
    /\ args.share_name = "Z$"
    /\ Weighted
    /\ result = "Temp\\"

\* C3: the fallback path of a known share is not among its primary entries,
\* and get_path_for_share for a known share returns one of the primary
\* entries and never the share's fallback path
C3_FallbackExclusive ==
    /\ \A key \in DOMAIN PATHS_BY_SHARE :
          /\ key \in DOMAIN FALLBACK_PATHS
          /\ FALLBACK_PATHS[key] \notin PrimaryPaths(key)
    /\ (Returned(GetPath) /\ SpecKey(args.share_name) \in DOMAIN PATHS_BY_SHARE)
          => /\ result \in PrimaryPaths(SpecKey(args.share_name))
             /\ result # FALLBACK_PATHS[SpecKey(args.share_name)]

\* a weighted lookup of C$ returned its last, least stealthy primary entry
C3_Witness ==
    /\ Returned(GetPath)
    /\ args.share_name = "C$"
    /\ Weighted
    /\ result = "Temp\\"

\* C4: in priority mode get_path_for_share returns, after any earlier calls,
\* the first-declared entry of the share ('Logs\' for ADMIN$,
\* 'Users\Public\Downloads\' for C$), whose weight is the maximum of the set
C4_PriorityMode ==
    /\ \A key \in DOMAIN PATHS_BY_SHARE :
          \A i \in 1..Len(PATHS_BY_SHARE[key]) :
              PATHS_BY_SHARE[key][1][2] >= PATHS_BY_SHARE[key][i][2]
    /\ (Returned(GetPath) /\ ~Weighted
            /\ SpecKey(args.share_name) \in DOMAIN PATHS_BY_SHARE)
          => /\ result = PATHS_BY_SHARE[SpecKey(args.share_name)][1][1]
             /\ SpecKey(args.share_name) = "ADMIN$" => result = "Logs\\"
             /\ SpecKey(args.share_name) = "C$"
                    => result = "Users\\Public\\Downloads\\"

\* a priority-mode lookup of 'Admin' returned 'Logs\' after earlier calls
C4_Witness ==
    /\ Returned(GetPath)
    /\ args.share_name = "Admin"
    /\ ~Weighted
    /\ result = "Logs\\"
    /\ called_before

\* C5: no call changes PATHS_BY_SHARE, FALLBACK_PATHS or a vocabulary table,
\* and after any sequence of calls get_fallback_path returns 'Windows\Temp\'
\* for C$ and 'Temp\' for ADMIN$
C5_NoRetainedState ==
    /\ PATHS_BY_SHARE = InitPATHS_BY_SHARE
    /\ FALLBACK_PATHS = InitFALLBACK_PATHS
    /\ VENDORS = InitVENDORS
    /\ COMPONENTS = InitCOMPONENTS
    /\ SUFFIXES = InitSUFFIXES
    /\ LOG_PREFIXES = InitLOG_PREFIXES
    /\ TEMP_PREFIXES = InitTEMP_PREFIXES
    /\ DATA_PREFIXES = InitDATA_PREFIXES
    /\ ACTION_WORDS = InitACTION_WORDS
    /\ TARGETS = InitTARGETS
    /\ SHARE_NAMES = InitSHARE_NAMES
    /\ DIR_PREFIXES = InitDIR_PREFIXES
    /\ Returned(GetFallback) =>
          /\ SpecKey(args.share_name) = "C$" => result = "Windows\\Temp\\"
          /\ SpecKey(args.share_name) = "ADMIN$" => result = "Temp\\"

\* get_fallback_path('C$') returned 'Windows\Temp\' after earlier calls
C5_Witness ==
    /\ Returned(GetFallback)
    /\ args.share_name = "C$"
    /\ result = "Windows\\Temp\\"
    /\ called_before

\* a relative path with a trailing and no leading separator
WellFormed(path) == endswith(path, "\\") /\ ~startswith(path, "\\")

\* C6: every entry of PATHS_BY_SHARE, every value of FALLBACK_PATHS and the
\* global default end with a backslash and do not begin with one, and so
\* does every result of get_path_for_share and get_fallback_path
C6_WellFormedPaths ==
    /\ \A key \in DOMAIN PATHS_BY_SHARE : \A p \in PrimaryPaths(key) : WellFormed(p)
    /\ \A key \in DOMAIN FALLBACK_PATHS : WellFormed(FALLBACK_PATHS[key])
    /\ WellFormed(DefaultFallback)
    /\ (Returned(GetPath) \/ Returned(GetFallback)) => WellFormed(result)

\* get_fallback_path of a C$ spelling returned the C$ fallback path
C6_Witness ==
    /\ Returned(GetFallback)
    /\ args.share_name = "c"
    /\ result = "Windows\\Temp\\"

DeclaredDurationCodes ==
    {"PT1H", "PT2H", "PT4H", "PT12H", "P1D", "P2D", "P3D", "P5D", "P7D"}

\* C7: a record of generate_all has exactly the fields StartBoundary,
\* DaysInterval, ExecutionTimeLimit and Priority, with DaysInterval in 1..7,
\* ExecutionTimeLimit one of the 9 declared codes and Priority in 4..8; the
\* standalone generators return values in the same ranges
C7_TaskRecordRanges ==
    /\ Returned("TaskSchedulerGenerator.generate_all") =>
          /\ DOMAIN result = {"StartBoundary", "DaysInterval",
                              "ExecutionTimeLimit", "Priority"}
          /\ result.DaysInterval \in 1..7
          /\ result.ExecutionTimeLimit \in DeclaredDurationCodes
          /\ result.Priority \in {4, 5, 6, 7, 8}
    /\ Returned("TaskSchedulerGenerator.generate_days_interval") =>
          result \in 1..7
    /\ Returned("TaskSchedulerGenerator.generate_execution_time_limit") =>
          result \in DeclaredDurationCodes
    /\ Returned("TaskSchedulerGenerator.generate_priority") =>
          result \in {4, 5, 6, 7, 8}
    /\ Cardinality(DeclaredDurationCodes) = 9

\* generate_all returned a record with the extreme values of its ranges
C7_Witness ==
    /\ Returned("TaskSchedulerGenerator.generate_all")
    /\ result.DaysInterval = 7
    /\ result.ExecutionTimeLimit = "P7D"
    /\ result.Priority = 8

\* s is not empty, ends with ext, and ext occurs in it once
EndsOnceWith(s, ext) ==
    /\ Len(s) > 0
    /\ endswith(s, ext)
    /\ Occurrences(s, ext) = 1

\* C8: generate_log, generate_batch and generate_executable return a
\* non-empty string that ends with '.log', '.bat' and '.exe' respectively,
\* the extension occurring in it exactly once
C8_FixedExtension ==
    /\ Returned("FileNameGenerator.generate_log") => EndsOnceWith(result, ".log")
    /\ Returned("FileNameGenerator.generate_batch") => EndsOnceWith(result, ".bat")
    /\ Returned("FileNameGenerator.generate_executable") =>
          EndsOnceWith(result, ".exe")

\* generate_executable built a name from the suffix token 'exe'
C8_Witness ==
    /\ Returned("FileNameGenerator.generate_executable")
    /\ result = "svcexe.exe"

\* every character of s is one of chars
AllIn(s, chars) ==
    \A i \in 1..Len(s) : \E j \in 1..Len(chars) : CharAt(s, i) = CharAt(chars, j)

\* s is the decimal form of an integer in 1000..99999
IsTempNumber(s) ==
    /\ Len(s) \in {4, 5}
    /\ AllIn(s, Digits)
    /\ CharAt(s, 1) # "0"

\* b is one of the four template expansions over TEMP_PREFIXES
IsTempBase(b) ==
    \E i \in 1..Len(TEMP_PREFIXES) :
        LET prefix == TEMP_PREFIXES[i]
            after(head) == SubSeq(b, Len(head) + 1, Len(b))
        IN  \/ b = prefix
            \/ /\ startswith(b, prefix)
               /\ Len(after(prefix)) = 6
               /\ AllIn(after(prefix), HexDigits)
            \/ /\ startswith(b, prefix \o "_")
               /\ IsTempNumber(after(prefix \o "_"))
            \/ /\ startswith(b, "~" \o prefix)
               /\ IsTempNumber(after("~" \o prefix))

\* C9: generate_temp returns base + extension for the extension passed, base
\* one of the four template expansions; with the empty extension the result
\* is the bare base and holds no '.'; with no argument it ends with '.tmp'
C9_TempExtension ==
    Returned("FileNameGenerator.generate_temp") =>
        LET e    == Param("extension", ".tmp")
            base == SubSeq(result, 1, Len(result) - Len(e))
        IN  /\ endswith(result, e)
            /\ IsTempBase(base)
            /\ e = "" => (IsTempBase(result) /\ Occurrences(result, ".") = 0)
            /\ "extension" \notin DOMAIN args => endswith(result, ".tmp")

\* generate_temp('') returned a bare hexadecimal name
C9_Witness ==
    /\ Returned("FileNameGenerator.generate_temp")
    /\ "extension" \in DOMAIN args
    /\ args.extension = ""
    /\ result = "tmp333333"

RECURSIVE StrToInt(_)
\* the integer a string of decimal digits denotes
StrToInt(s) ==
    IF s = "" THEN 0
    ELSE (StrToInt(SubSeq(s, 1, Len(s) - 1)) * 10)
            + ((CHOOSE d \in 1..10 : CharAt(Digits, d) = CharAt(s, Len(s))) - 1)

\* a point in time to the second: <<day ordinal, second of the day>>
TimeKey(y, mo, d, h, mi, s) ==
    <<ymd2ord(y, mo, d), (h * 3600) + (mi * 60) + s>>

\* the time, to the second, a StartBoundary string
\* YYYY-MM-DDTHH:MM:SS.fffffff encodes
StartBoundaryKey(b) ==
    TimeKey(StrToInt(SubSeq(b, 1, 4)), StrToInt(SubSeq(b, 6, 7)),
            StrToInt(SubSeq(b, 9, 10)), StrToInt(SubSeq(b, 12, 13)),
            StrToInt(SubSeq(b, 15, 16)), StrToInt(SubSeq(b, 18, 19)))

\* the time, to the second, a datetime denotes
DatetimeKey(t) == TimeKey(t.year, t.month, t.day, t.hour, t.minute, t.second)

\* a is not later than b
NotLater(a, b) == a[1] < b[1] \/ (a[1] = b[1] /\ a[2] <= b[2])

\* C10: the time generate_start_boundary returns is no later than the time
\* the call read and no earlier than 24 hours before it (compared to the
\* second, the synthetic sub-second digits left aside), and its sub-second
\* component has exactly 7 digits
C10_WithinLast24Hours ==
    Returned("TaskSchedulerGenerator.generate_start_boundary") =>
        LET t   == StartBoundaryKey(result)
            now == DatetimeKey(clock)
        IN  /\ NotLater(t, now)
            /\ NotLater(<<now[1] - 1, now[2]>>, t)
            /\ Len(result) = 27
            /\ CharAt(result, 20) = "."
            /\ AllIn(SubSeq(result, 21, 27), Digits)

====
